---- MODULE Spec2Model ----
(***************************************************************************)
(* Model of the speech scheduling assistant: the group chat manager        *)
(* (src/src/agents/group_chat_manager.py), the three role agents           *)
(* (user_agent.py, planning_agent.py, calendar_agent.py) and the calendar  *)
(* client (src/src/utils/calender_utils.py).                               *)
(*                                                                         *)
(* Text is modelled as a tuple of one-character strings, so that           *)
(* str.lower, str.strip, str.endswith, str.replace, str.isalnum and the    *)
(* substring test `in` are computed character by character.                *)
(***************************************************************************)
EXTENDS Integers, Sequences, FiniteSets, TLC

\* ------------------------------------------------------------ bounds ----
\* handle_message is not taken once the manager's history holds this many
\* messages (the code has no such guard; it only keeps the model finite).
MaxMessages == 3

\* ------------------------------------------------------- text library ----
UpperCase == <<"A", "B", "C", "D", "E", "F", "G", "H", "I", "J", "K", "L", "M",
               "N", "O", "P", "Q", "R", "S", "T", "U", "V", "W", "X", "Y", "Z">>
LowerCase == <<"a", "b", "c", "d", "e", "f", "g", "h", "i", "j", "k", "l", "m",
               "n", "o", "p", "q", "r", "s", "t", "u", "v", "w", "x", "y", "z">>
Digits == {"0", "1", "2", "3", "4", "5", "6", "7", "8", "9"}
Letters == {UpperCase[i] : i \in 1..26} \cup {LowerCase[i] : i \in 1..26}
Whitespace == {" ", "\t", "\n", "\r"}

\* string.punctuation (the double quote, the backslash and the backtick are
\* written as the one-character tokens DQUOTE, BACKSLASH and BACKTICK)
Punctuation == {"!", "DQUOTE", "#", "$", "%", "&", "'", "(", ")", "*", "+", ",",
                "-", ".", "/", ":", ";", "<", "=", ">", "?", "@", "[", "BACKSLASH",
                "]", "^", "_", "BACKTICK", "{", "|", "}", "~"}

LowerChar(c) ==
    IF \E i \in 1..26 : UpperCase[i] = c
    THEN LowerCase[CHOOSE i \in 1..26 : UpperCase[i] = c]
    ELSE c

\* str.lower()
Lower(s) == [i \in 1..Len(s) |-> LowerChar(s[i])]

\* str.strip(chars): drop leading and trailing characters that are in chars
RECURSIVE LStrip(_, _)
LStrip(s, chars) ==
    IF s # <<>> /\ Head(s) \in chars THEN LStrip(Tail(s), chars) ELSE s

RECURSIVE RStrip(_, _)
RStrip(s, chars) ==
    IF s # <<>> /\ s[Len(s)] \in chars
    THEN RStrip(SubSeq(s, 1, Len(s) - 1), chars)
    ELSE s

Strip(s, chars) == RStrip(LStrip(s, chars), chars)

\* str.endswith(suffix)
EndsWith(s, suffix) ==
    /\ Len(suffix) <= Len(s)
    /\ SubSeq(s, Len(s) - Len(suffix) + 1, Len(s)) = suffix

\* sub in s
Contains(s, sub) ==
    \E i \in 0..(Len(s) - Len(sub)) : SubSeq(s, i + 1, i + Len(sub)) = sub

\* str.replace(c, empty): delete every occurrence of the character c
RECURSIVE RemoveChar(_, _)
RemoveChar(s, c) ==
    IF s = <<>> THEN <<>>
    ELSE IF Head(s) = c THEN RemoveChar(Tail(s), c)
         ELSE <<Head(s)>> \o RemoveChar(Tail(s), c)

\* str.isalnum(): non-empty and every character a letter or a digit
IsAlnum(s) == s # <<>> /\ \A i \in 1..Len(s) : s[i] \in Letters \cup Digits

\* ------------------------------------------------------------- texts ----
Txt_approve == <<"a", "p", "p", "r", "o", "v", "e">>
Txt_APPROVE_bang == <<"A", "P", "P", "R", "O", "V", "E", "!">>
Txt_approved == <<"a", "p", "p", "r", "o", "v", "e", "d">>
Txt_APPROVED == <<"A", "P", "P", "R", "O", "V", "E", "D">>
Txt_plan == <<"I", " ", "a", "p", "p", "r", "o", "v", "e", " ", "t", "h", "i", "s", " ", "p", "l", "a", "n", "!">>
Txt_disapprove == <<"d", "i", "s", "a", "p", "p", "r", "o", "v", "e">>
Txt_approve_space == <<"a", "p", "p", "r", "o", "v", "e", " ">>

\* what the human may type at the console, and what the first message may hold
UserInputs == {Txt_approve, Txt_APPROVE_bang, Txt_approved, Txt_APPROVED,
               Txt_plan, Txt_disapprove, Txt_approve_space}

\* free-text replies of the LLM to the selector prompt
Reply_User == <<"U", "s", "e", "r">>
Reply_planning == <<"p", "l", "a", "n", "n", "i", "n", "g">>
Reply_CALENDAR == <<"C", "A", "L", "E", "N", "D", "A", "R">>
Reply_two == <<"c", "a", "l", "e", "n", "d", "a", "r", ",", " ", "t", "h", "e", "n", " ", "u", "s", "e", "r">>
Reply_nobody == <<"n", "o", "b", "o", "d", "y">>
SelectorReplies == {Reply_User, Reply_planning, Reply_CALENDAR, Reply_two,
                    Reply_nobody}

\* --------------------------------------------------------- the roles ----
None == "None"
TopicTypes == {"User", "Planning", "Calendar"}

\* the characters of a topic type (= agent type) name
TopicChars(t) ==
    CASE t = "User" -> <<"U", "s", "e", "r">>
      [] t = "Planning" -> <<"P", "l", "a", "n", "n", "i", "n", "g">>
      [] t = "Calendar" -> <<"C", "a", "l", "e", "n", "d", "a", "r">>

\* participant_descriptions, zipped with participant_topic_types
Description(t) ==
    CASE t = "User" -> "the human user"
      [] t = "Planning" -> "the planner"
      [] t = "Calendar" -> "the calendar assistant"

\* the orders in which the three roles may be registered with the manager
RegistrationOrders ==
    {<<a, b, c>> : a \in TopicTypes, b \in TopicTypes, c \in TopicTypes}
      \ {o \in TopicTypes \X TopicTypes \X TopicTypes :
            o[1] = o[2] \/ o[1] = o[3] \/ o[2] = o[3]}

\* ------------------------------------------------------------- state ----
VARIABLES
    participant_topic_types,         \* GroupChatManager._participant_topic_types
    chat_history,                    \* GroupChatManager._chat_history
    previous_participant_topic_type, \* GroupChatManager._previous_participant_topic_type
    group_chat_topic,                \* GroupChatMessages published, not yet handled
    request_to_speak,                \* RequestToSpeak messages published, not yet handled
    tasks,                           \* handlers suspended at an await
    started,                         \* the entry point has published the first message
    last,                            \* the step just taken
    role_chat_history,               \* _chat_history of the Planning and Calendar agents
    provider_events,                 \* the events the calendar provider holds, by start time
    cal_op,                          \* the calendar client call just made
    tool_op,                         \* the calendar tool call just made
    host_utc_offset,                 \* minutes the host's local time is ahead of UTC
    token_file,                      \* what token.pickle holds
    cred_op                          \* the run of _get_credentials just made

convVars == <<participant_topic_types, chat_history,
              previous_participant_topic_type, group_chat_topic,
              request_to_speak, tasks, started, last, role_chat_history>>

calVars == <<provider_events, cal_op>>

\* the tool wrappers of the calendar agent and the host they run on
toolVars == <<tool_op, host_utc_offset>>

\* the stored OAuth token and the last run of _get_credentials
credVars == <<token_file, cred_op>>

vars == <<convVars, calVars, toolVars, credVars>>

\* -------------------------------------------------- group chat manager --
\* UserMessage(content, source)
Message(source, content) == [source |-> source, content |-> content]

\* a handler suspended at an await
Task(kind, role, prompt, calls, results) ==
    [kind |-> kind, role |-> role, prompt |-> prompt, calls |-> calls,
     results |-> results]

NoPrompt == [roles |-> <<>>, participants |-> <<>>, history |-> <<>>]

Step(op, role, msg, reply, outcome) ==
    [op |-> op, role |-> role, msg |-> msg, reply |-> reply, outcome |-> outcome]

NoMessage == Message(None, <<>>)

RemoveAt(s, i) == SubSeq(s, 1, i - 1) \o SubSeq(s, i + 1, Len(s))

\* ------------------------------------------- the agents' own histories --
\* the roles whose agent keeps a _chat_history
HistoryRoles == {"Planning", "Calendar"}
\* an entry of an agent's _chat_history: a UserMessage or an AssistantMessage
Entry(type, source, content) ==
    [type |-> type, source |-> source, content |-> content]
\* f"Transferred to {message.body.source}"
TransferredTo(source) ==
    Entry("UserMessage", "system", <<"Transferred to ", source>>)
\* f"Transferred to {self.id.type}, adopt the persona immediately."
AdoptPersona(role) ==
    Entry("UserMessage", "system",
          <<"Transferred to ", role, ", adopt the persona immediately.">>)
\* handle_message of the Planning and Calendar agents: the marker and the
\* message body are appended
AgentHandleMessage(history, msg) ==
    history \o <<TransferredTo(msg.source),
                 Entry("UserMessage", msg.source, msg.content)>>
\* a message published to the group chat is handled by every agent but the
\* one that published it
Delivered(histories, msg) ==
    [r \in HistoryRoles |->
        IF r = msg.source THEN histories[r]
        ELSE AgentHandleMessage(histories[r], msg)]
\* an agent appends an entry to its own history
Appended(histories, role, entry) ==
    [histories EXCEPT ![role] = Append(@, entry)]

\* a variant that looks for the word anywhere in the content
IsApprovalAnywhere(content) ==
    Contains(Strip(Lower(content), Punctuation), Txt_approve)

\* group_chat_manager.py:47
IsApproval(content) ==
    EndsWith(Strip(Lower(content), Punctuation), Txt_approve)

\* group_chat_manager.py:45-48: the message stops the chat
StopsChat(msg) == msg.source = "User" /\ IsApproval(msg.content)

\* a variant without the filter on the previous participant
EligibleUnfiltered(types, previous) == types

\* the list comprehension of lines 86-90 (and the filter of lines 66-70)
RECURSIVE Eligible(_, _)
Eligible(types, previous) ==
    IF types = <<>> THEN <<>>
    ELSE IF Head(types) # previous
         THEN <<Head(types)>> \o Eligible(Tail(types), previous)
         ELSE Eligible(Tail(types), previous)

\* lines 50-62: one line per message of the history
FormatHistory(history) ==
    [i \in 1..Len(history) |-> <<history[i].source, history[i].content>>]

\* lines 64-93: the selector prompt
SelectorPrompt(types, previous, history) ==
    [roles |-> [i \in 1..Len(Eligible(types, previous)) |->
                    <<Eligible(types, previous)[i],
                      Description(Eligible(types, previous)[i])>>],
     participants |-> Eligible(types, previous),
     history |-> FormatHistory(history)]

\* variants of the selection loop: one that keeps the last match instead of
\* returning at the first, one that falls back to the first registered role
\* when nothing matches, and one that does not return after publishing
RECURSIVE SelectedLast(_, _)
SelectedLast(types, completion) ==
    IF types = <<>> THEN <<>>
    ELSE IF SelectedLast(Tail(types), completion) # <<>>
         THEN SelectedLast(Tail(types), completion)
         ELSE IF Contains(Lower(completion), Lower(TopicChars(Head(types))))
              THEN <<Head(types)>>
              ELSE <<>>

RECURSIVE SelectedFirstMatch(_, _)
SelectedFirstMatch(types, completion) ==
    IF types = <<>> THEN <<>>
    ELSE IF Contains(Lower(completion), Lower(TopicChars(Head(types))))
         THEN <<Head(types)>>
         ELSE SelectedFirstMatch(Tail(types), completion)

SelectedOrDefault(types, completion) ==
    IF SelectedFirstMatch(types, completion) # <<>>
    THEN SelectedFirstMatch(types, completion)
    ELSE <<Head(types)>>

RECURSIVE SelectedEvery(_, _)
SelectedEvery(types, completion) ==
    IF types = <<>> THEN <<>>
    ELSE IF Contains(Lower(completion), Lower(TopicChars(Head(types))))
         THEN <<Head(types)>> \o SelectedEvery(Tail(types), completion)
         ELSE SelectedEvery(Tail(types), completion)

\* lines 97-103: the topic types a request to speak is published to; the loop
\* returns at the first topic type whose lower-cased name occurs in the
\* lower-cased completion, and publishes nothing when none does
RECURSIVE Selected(_, _)
Selected(types, completion) ==
    IF types = <<>> THEN <<>>
    ELSE IF Contains(Lower(completion), Lower(TopicChars(Head(types))))
         THEN <<Head(types)>>
         ELSE Selected(Tail(types), completion)

\* handle_message as it would be if the approval test came before the append
\* of line 43
HandleMessageApprovalFirst ==
    /\ Len(chat_history) < MaxMessages
    /\ \E i \in 1..Len(group_chat_topic) :
         LET msg == group_chat_topic[i] IN
         /\ group_chat_topic' = RemoveAt(group_chat_topic, i)
         /\ role_chat_history' = Delivered(role_chat_history, msg)
         /\ IF StopsChat(msg)
            THEN /\ chat_history' = chat_history
                 /\ tasks' = tasks
                 /\ last' = Step("handle_message", None, msg, <<>>, "stopped")
            ELSE /\ chat_history' = Append(chat_history, msg)
                 /\ tasks' = Append(tasks,
                        Task("select", None,
                             SelectorPrompt(participant_topic_types,
                                            previous_participant_topic_type,
                                            chat_history'),
                             <<>>, <<>>))
                 /\ last' = Step("handle_message", None, msg, <<>>, "prompted")
    /\ UNCHANGED <<calVars, toolVars, credVars, participant_topic_types, previous_participant_topic_type,
                   request_to_speak, started>>

\* GroupChatManager.handle_message up to the await of line 94
HandleMessage ==
    /\ Len(chat_history) < MaxMessages
    /\ \E i \in 1..Len(group_chat_topic) :
         LET msg == group_chat_topic[i] IN
         /\ group_chat_topic' = RemoveAt(group_chat_topic, i)
         /\ chat_history' = Append(chat_history, msg)
         /\ role_chat_history' = Delivered(role_chat_history, msg)
         /\ IF StopsChat(msg)
            THEN /\ tasks' = tasks
                 /\ last' = Step("handle_message", None, msg, <<>>, "stopped")
            ELSE /\ tasks' = Append(tasks,
                        Task("select", None,
                             SelectorPrompt(participant_topic_types,
                                            previous_participant_topic_type,
                                            chat_history'),
                             <<>>, <<>>))
                 /\ last' = Step("handle_message", None, msg, <<>>, "prompted")
    /\ UNCHANGED <<calVars, toolVars, credVars, participant_topic_types, previous_participant_topic_type,
                   request_to_speak, started>>

\* the completion handled as it would be without the assignment of line 100
HandleCompletionKeepsMarker ==
    \E i \in 1..Len(tasks), completion \in SelectorReplies :
      LET sel == Selected(participant_topic_types, completion) IN
      /\ tasks[i].kind = "select"
      /\ tasks' = RemoveAt(tasks, i)
      /\ request_to_speak' = request_to_speak \o sel
      /\ IF sel # <<>>
         THEN last' = Step("select", sel[1], NoMessage, completion, "selected")
         ELSE last' = Step("select", None, NoMessage, completion, "ValueError")
      /\ UNCHANGED <<calVars, toolVars, credVars, role_chat_history, participant_topic_types, chat_history, group_chat_topic,
                     previous_participant_topic_type, started>>

\* GroupChatManager.handle_message from the completion of line 94 on
HandleCompletion ==
    \E i \in 1..Len(tasks), completion \in SelectorReplies :
      LET sel == Selected(participant_topic_types, completion) IN
      /\ tasks[i].kind = "select"
      /\ tasks' = RemoveAt(tasks, i)
      /\ request_to_speak' = request_to_speak \o sel
      /\ IF sel # <<>>
         THEN /\ previous_participant_topic_type' = sel[Len(sel)]
              /\ last' = Step("select", sel[1], NoMessage, completion, "selected")
         ELSE /\ previous_participant_topic_type' = previous_participant_topic_type
              /\ last' = Step("select", None, NoMessage, completion, "ValueError")
      /\ UNCHANGED <<calVars, toolVars, credVars, role_chat_history, participant_topic_types, chat_history, group_chat_topic,
                     started>>

\* ------------------------------------------------------------ entry ----
\* the runtime is started and the first user message is published to the
\* group chat topic
PublishFirstMessage ==
    /\ ~started
    /\ started' = TRUE
    /\ \E text \in UserInputs :
         /\ group_chat_topic' = Append(group_chat_topic, Message("User", text))
         /\ last' = Step("start", None, Message("User", text), <<>>, "published")
    /\ UNCHANGED <<calVars, toolVars, credVars, role_chat_history, participant_topic_types, chat_history,
                   previous_participant_topic_type, request_to_speak, tasks>>

\* ------------------------------------------------------- user agent ----
\* index of the first request to speak addressed to a role
HasRequest(role) == \E i \in 1..Len(request_to_speak) : request_to_speak[i] = role
FirstRequest(role) ==
    CHOOSE i \in 1..Len(request_to_speak) :
        /\ request_to_speak[i] = role
        /\ \A j \in 1..(i - 1) : request_to_speak[j] # role

\* UserAgent.handle_request_to_speak: input() blocks, then the line read is
\* published with source = self.id.type
UserRequestToSpeak ==
    /\ HasRequest("User")
    /\ request_to_speak' = RemoveAt(request_to_speak, FirstRequest("User"))
    /\ \E user_input \in UserInputs :
         /\ group_chat_topic' =
                Append(group_chat_topic, Message("User", user_input))
         /\ last' = Step("speak", "User", Message("User", user_input), <<>>,
                         "published")
    /\ UNCHANGED <<calVars, toolVars, credVars, role_chat_history, participant_topic_types, chat_history,
                   previous_participant_topic_type, tasks, started>>

\* --------------------------------------------------- planning agent ----
PlanningTexts == {"Which day should the meeting be on?"}

\* PlanningAgent.handle_request_to_speak up to the await of the completion
PlanningRequestToSpeak ==
    /\ HasRequest("Planning")
    /\ request_to_speak' = RemoveAt(request_to_speak, FirstRequest("Planning"))
    /\ tasks' = Append(tasks, Task("planning_llm", "Planning", NoPrompt, <<>>, <<>>))
    /\ role_chat_history' =
           Appended(role_chat_history, "Planning", AdoptPersona("Planning"))
    /\ last' = Step("request", "Planning", NoMessage, <<>>, "awaiting")
    /\ UNCHANGED <<calVars, toolVars, credVars, participant_topic_types, chat_history,
                   previous_participant_topic_type, group_chat_topic, started>>

\* PlanningAgent.handle_request_to_speak from the completion on
PlanningPublish ==
    \E i \in 1..Len(tasks), text \in PlanningTexts :
      /\ tasks[i].kind = "planning_llm"
      /\ tasks' = RemoveAt(tasks, i)
      /\ group_chat_topic' = Append(group_chat_topic, Message("Planning", text))
      /\ role_chat_history' =
             Appended(role_chat_history, "Planning",
                      Entry("AssistantMessage", "Planning", text))
      /\ last' = Step("speak", "Planning", Message("Planning", text), <<>>,
                      "published")
      /\ UNCHANGED <<calVars, toolVars, credVars, participant_topic_types, chat_history,
                     previous_participant_topic_type, request_to_speak, started>>

\* --------------------------------------------------- calendar agent ----
\* the names of the FunctionTools of _create_tools
ToolNames == {"add_event", "get_events", "delete_event"}

\* lists of tool calls a Calendar completion may hold; list_events is a name
\* the LLM made up
CalendarCompletions ==
    {<<"get_events">>, <<"add_event", "delete_event">>,
     <<"get_events", "list_events">>, <<"list_events">>}

\* what tool.run_json returns: every wrapper awaits the value returned by a
\* plain (non-async) calendar function, which raises TypeError after the
\* provider call was made; the wrapper catches it and returns its error text
ToolResult(name) ==
    CASE name = "add_event" -> "Error adding event: object bool can't be used in 'await' expression"
      [] name = "get_events" -> "Error getting events: object list can't be used in 'await' expression"
      [] name = "delete_event" -> "Error deleting event: object bool can't be used in 'await' expression"

\* CalendarAgent.handle_request_to_speak up to the await of the completion
CalendarRequestToSpeak ==
    /\ HasRequest("Calendar")
    /\ request_to_speak' = RemoveAt(request_to_speak, FirstRequest("Calendar"))
    /\ tasks' = Append(tasks, Task("calendar_llm", "Calendar", NoPrompt, <<>>, <<>>))
    /\ role_chat_history' =
           Appended(role_chat_history, "Calendar", AdoptPersona("Calendar"))
    /\ last' = Step("request", "Calendar", NoMessage, <<>>, "awaiting")
    /\ UNCHANGED <<calVars, toolVars, credVars, participant_topic_types, chat_history,
                   previous_participant_topic_type, group_chat_topic, started>>

\* the completion arrives: a list of FunctionCalls (tool_choice is required)
CalendarCompletion ==
    \E i \in 1..Len(tasks), calls \in CalendarCompletions :
      /\ tasks[i].kind = "calendar_llm"
      /\ tasks' = [tasks EXCEPT ![i] =
                      Task("calendar_tools", "Calendar", NoPrompt, calls, <<>>)]
      /\ last' = Step("completion", "Calendar", NoMessage, <<>>, "tool_calls")
      /\ UNCHANGED <<calVars, toolVars, credVars, role_chat_history, participant_topic_types, chat_history,
                     previous_participant_topic_type, group_chat_topic,
                     request_to_speak, started>>

\* the loop of lines 263-269, one tool call: the tool is looked up by name
\* (next() over no match raises StopIteration and the handler dies) and run
CalendarRunTool ==
    \E i \in 1..Len(tasks) :
      /\ tasks[i].kind = "calendar_tools"
      /\ tasks[i].calls # <<>>
      /\ IF Head(tasks[i].calls) \in ToolNames
         THEN /\ tasks' = [tasks EXCEPT ![i].kind = "calendar_provider"]
              /\ last' = Step("tool", "Calendar", NoMessage, <<>>, "provider_call")
         ELSE /\ tasks' = RemoveAt(tasks, i)
              /\ last' = Step("tool", "Calendar", NoMessage, <<>>, "StopIteration")
      /\ UNCHANGED <<calVars, toolVars, credVars, role_chat_history, participant_topic_types, chat_history,
                     previous_participant_topic_type, group_chat_topic,
                     request_to_speak, started>>

\* the provider call returns and the tool result is appended to results
CalendarToolReturn ==
    \E i \in 1..Len(tasks) :
      /\ tasks[i].kind = "calendar_provider"
      /\ tasks' = [tasks EXCEPT ![i] =
                      Task("calendar_tools", "Calendar", NoPrompt,
                           Tail(tasks[i].calls),
                           Append(tasks[i].results,
                                  ToolResult(Head(tasks[i].calls))))]
      /\ last' = Step("tool", "Calendar", NoMessage, <<>>, "result")
      /\ UNCHANGED <<calVars, toolVars, credVars, role_chat_history, participant_topic_types, chat_history,
                     previous_participant_topic_type, group_chat_topic,
                     request_to_speak, started>>

\* lines 271-276: the results, joined by newlines, are published
CalendarPublish ==
    \E i \in 1..Len(tasks) :
      /\ tasks[i].kind = "calendar_tools"
      /\ tasks[i].calls = <<>>
      /\ tasks' = RemoveAt(tasks, i)
      /\ group_chat_topic' =
             Append(group_chat_topic, Message("Calendar", tasks[i].results))
      /\ last' = Step("speak", "Calendar", Message("Calendar", tasks[i].results),
                      <<>>, "published")
      /\ UNCHANGED <<calVars, toolVars, credVars, role_chat_history, participant_topic_types, chat_history,
                     previous_participant_topic_type, request_to_speak, started>>

\* --------------------------------------------------- calendar client ----
Id_abc123 == <<"a", "b", "c", "1", "2", "3">>
Id_e_2 == <<"e", "_", "2">>
Title_TeamMeeting == <<"T", "e", "a", "m", " ", "M", "e", "e", "t", "i", "n", "g">>
Title_TEAM_MEETING == <<"T", "E", "A", "M", " ", "M", "E", "E", "T", "I", "N", "G">>
Title_Standup == <<"S", "t", "a", "n", "d", "u", "p">>
Txt_underscores == <<"_", "_", "_">>

EventIds == {Id_abc123, Id_e_2}
Summaries == {Title_TeamMeeting, Title_Standup}
\* what the LLM may pass to delete_event as event_id
DeleteArguments == {Id_abc123, Id_e_2, Title_TeamMeeting, Title_TEAM_MEETING,
                    Title_Standup, Txt_underscores}
\* titles find_event_by_title may be asked for: Team is part of a summary
Title_Team == <<"T", "e", "a", "m">>
TitleArguments == {Title_TeamMeeting, Title_TEAM_MEETING, Title_Standup,
                   Title_Team}

\* a provider event record
Event(id, summary) == [id |-> id, summary |-> summary]

\* the lists of events the provider may hold when the client is called
EventLists ==
    {<<>>}
    \cup {<<Event(i, x)>> : i \in EventIds, x \in Summaries}
    \cup {l \in {<<Event(i, x), Event(j, y)>> :
                    i \in EventIds, j \in EventIds, x \in Summaries, y \in Summaries} :
             l[1].id # l[2].id}

\* one call made by the client while it runs
Call(api, arg) == [api |-> api, arg |-> arg]
NoCall == [fn |-> "none", arg |-> <<>>, ret |-> None, calls |-> <<>>,
           failed |-> {}]

\* find_event_by_title, lines 66-69: the id of the first listed event whose
\* lower-cased summary equals the lower-cased title, None when there is none
\* the lookup as it would be if the last listed match were taken
RECURSIVE LastWithTitle(_, _)
LastWithTitle(events, title) ==
    IF events = <<>> THEN None
    ELSE IF Lower(events[Len(events)].summary) = Lower(title)
         THEN events[Len(events)].id
         ELSE LastWithTitle(SubSeq(events, 1, Len(events) - 1), title)

RECURSIVE FirstWithTitle(_, _)
FirstWithTitle(events, title) ==
    IF events = <<>> THEN None
    ELSE IF Lower(Head(events).summary) = Lower(title)
         THEN Head(events).id
         ELSE FirstWithTitle(Tail(events), title)

\* find_event_by_title: one provider list call; an error of the call is
\* caught and None returned
FindEventByTitle(events, title, listOk) ==
    [ret |-> IF listOk THEN FirstWithTitle(events, title) ELSE None,
     calls |-> <<Call("find_event_by_title", title), Call("events.list", <<>>)>>]

\* calender_utils.py:138
LooksLikeEventId(event_id_or_title) ==
    IsAlnum(RemoveChar(event_id_or_title, "_"))

\* the provider removes the event with this id
RECURSIVE WithoutEvent(_, _)
WithoutEvent(events, id) ==
    IF events = <<>> THEN <<>>
    ELSE IF Head(events).id = id THEN Tail(events)
         ELSE <<Head(events)>> \o WithoutEvent(Tail(events), id)

HasEvent(events, id) == \E i \in 1..Len(events) : events[i].id = id

\* delete_event as it would be without the test of line 146: the delete call
\* is made with whatever the lookup returned
DeleteEventUnchecked(events, event_id_or_title, listOk, deleteOk) ==
    LET lookup == FindEventByTitle(events, event_id_or_title, listOk)
        byId == LooksLikeEventId(event_id_or_title)
        before == IF byId THEN <<>> ELSE lookup.calls
    IN  [ret |-> FALSE,
         calls |-> Append(before, Call("events.delete", event_id_or_title)),
         events |-> events,
         failed |-> {"events.delete"}]

\* delete_event, lines 132-159: what it returns, the calls it makes in the
\* order it makes them, and the events the provider holds afterwards; the
\* provider delete call raises when the transport fails or the id is unknown
DeleteEvent(events, event_id_or_title, listOk, deleteOk) ==
    LET lookup == FindEventByTitle(events, event_id_or_title, listOk)
        byId == LooksLikeEventId(event_id_or_title)
        event_id == IF byId THEN event_id_or_title ELSE lookup.ret
        before == IF byId THEN <<>> ELSE lookup.calls
        deleted == deleteOk /\ HasEvent(events, event_id)
        listFailed == IF byId \/ listOk THEN {} ELSE {"events.list"}
    IN  IF event_id = None \/ event_id = <<>>
        THEN [ret |-> FALSE, calls |-> before, events |-> events,
              failed |-> listFailed]
        ELSE [ret |-> deleted,
              calls |-> Append(before, Call("events.delete", event_id)),
              events |-> IF deleted THEN WithoutEvent(events, event_id)
                         ELSE events,
              failed |-> listFailed \cup
                         (IF deleted THEN {} ELSE {"events.delete"})]

\* the delete_event tool is run with some argument
CallDeleteEvent ==
    \E arg \in DeleteArguments, listOk \in BOOLEAN, deleteOk \in BOOLEAN :
      LET r == DeleteEvent(provider_events, arg, listOk, deleteOk) IN
      /\ provider_events' = r.events
      /\ cal_op' = [fn |-> "delete_event", arg |-> arg, ret |-> r.ret,
                    calls |-> r.calls, failed |-> r.failed]
      /\ UNCHANGED <<convVars, toolVars, credVars>>

\* find_event_by_title is called with a title and the default window
CallFindEventByTitle ==
    \E title \in TitleArguments, listOk \in BOOLEAN :
      LET r == FindEventByTitle(provider_events, title, listOk) IN
      /\ cal_op' = [fn |-> "find_event_by_title", arg |-> title,
                    ret |-> r.ret, calls |-> r.calls,
                    failed |-> IF listOk THEN {} ELSE {"events.list"}]
      /\ UNCHANGED <<provider_events, convVars, toolVars, credVars>>

\* ------------------------------------------------------- timestamps ----
\* an ISO-8601 text YYYY-MM-DDTHH:MM:SS followed by suffix tokens: wall is
\* the wall-clock reading in minutes after 2024-04-02T00:00:00, suffix the
\* sequence of Z and offset tokens that follow it; kind tells an ISO text
\* from another text (kind text) and from a missing value (kind none)
Iso(wall, suffix) == [kind |-> "iso", wall |-> wall, suffix |-> suffix]
NotIso == [kind |-> "text", wall |-> 0, suffix |-> <<>>]
NoTime == [kind |-> "none", wall |-> 0, suffix |-> <<>>]

Time_1400 == Iso(840, <<>>)
Time_1400Z == Iso(840, <<"Z">>)
Time_1500 == Iso(900, <<>>)
Time_1500Z == Iso(900, <<"Z">>)
Time_0030 == Iso(30, <<>>)
Time_1400_plus2 == Iso(840, <<"+02:00">>)

\* str.endswith("Z") on a text
EndsWithZ(t) == t.suffix # <<>> /\ t.suffix[Len(t.suffix)] = "Z"

\* get_events, lines 108-112: a Z is appended unless the text ends with one
WithZ(t) == IF EndsWithZ(t) THEN t ELSE [t EXCEPT !.suffix = Append(@, "Z")]

\* ----------------------------------------- add_event and get_events ----
\* a missing title or description: dict.get returns None
NoText == <<"None">>
\* event_details as the caller built it
Details(title, start_time, end_time, description) ==
    [title |-> title, start_time |-> start_time, end_time |-> end_time,
     description |-> description]

Desc_sync == <<"s", "y", "n", "c">>
AddArguments ==
    {Details(t, a, b, d) :
        t \in {Title_TeamMeeting, NoText}, a \in {Time_1400, Time_1400Z, NoTime},
        b \in {Time_1500, NoTime}, d \in {Desc_sync, NoText}}

\* add_event, lines 83-94: the body of the insert call
EventBody(event_details) ==
    [summary |-> event_details.title,
     description |-> event_details.description,
     start |-> [dateTime |-> event_details.start_time, timeZone |-> "UTC"],
     end |-> [dateTime |-> event_details.end_time, timeZone |-> "UTC"]]

\* add_event as it would be if a failed insert were tried a second time
AddEventRetry(event_details, insertOk) ==
    [ret |-> insertOk,
     calls |-> IF insertOk
               THEN <<Call("events.insert", EventBody(event_details))>>
               ELSE <<Call("events.insert", EventBody(event_details)),
                      Call("events.insert", EventBody(event_details))>>,
     failed |-> IF insertOk THEN {} ELSE {"events.insert"}]

\* add_event, lines 79-103: one insert call; True, or False when it raised
AddEvent(event_details, insertOk) ==
    [ret |-> insertOk,
     calls |-> <<Call("events.insert", EventBody(event_details))>>,
     failed |-> IF insertOk THEN {} ELSE {"events.insert"}]

\* get_events, lines 105-130: one list call; the items, or [] when it raised
GetEvents(events, time_min, time_max, listOk) ==
    [ret |-> IF listOk THEN events ELSE <<>>,
     calls |-> <<Call("events.list", <<WithZ(time_min), WithZ(time_max)>>)>>,
     failed |-> IF listOk THEN {} ELSE {"events.list"}]

\* the ids the provider has not given to an event
FreeIds(events) == {i \in EventIds : ~HasEvent(events, i)}
InsertAt(s, k, x) == SubSeq(s, 1, k - 1) \o <<x>> \o SubSeq(s, k, Len(s))
\* the summary the provider stores: none when the body has no summary
Stored(summary) == IF summary = NoText THEN <<>> ELSE summary

\* add_event is called; the provider, when the call succeeds, gives the
\* event an id and lists it where its start time puts it
CallAddEvent ==
    \E event_details \in AddArguments, insertOk \in BOOLEAN :
      LET r == AddEvent(event_details, insertOk) IN
      /\ insertOk => FreeIds(provider_events) # {}
      /\ cal_op' = [fn |-> "add_event", arg |-> event_details, ret |-> r.ret,
                    calls |-> r.calls, failed |-> r.failed]
      /\ IF insertOk
         THEN \E id \in FreeIds(provider_events),
                 k \in 1..(Len(provider_events) + 1) :
                provider_events' =
                    InsertAt(provider_events, k,
                             Event(id, Stored(event_details.title)))
         ELSE provider_events' = provider_events
      /\ UNCHANGED <<convVars, toolVars, credVars>>

\* get_events is called with a range
CallGetEvents ==
    \E time_min \in {Time_1400, Time_1400Z}, time_max \in {Time_1500},
       listOk \in BOOLEAN :
      LET r == GetEvents(provider_events, time_min, time_max, listOk) IN
      /\ cal_op' = [fn |-> "get_events", arg |-> <<time_min, time_max>>,
                    ret |-> r.ret, calls |-> r.calls, failed |-> r.failed]
      /\ UNCHANGED <<provider_events, convVars, toolVars, credVars>>

\* ------------------------------------------------- format_event_details --
\* a text is a sequence of one-character strings and literal fragments; LF
\* stands for the line feed
DigitChars == <<"0", "1", "2", "3", "4", "5", "6", "7", "8", "9">>
TwoDigits(n) == <<DigitChars[(n \div 10) + 1], DigitChars[(n % 10) + 1]>>
\* the readings count minutes from 2024-04-02 00:00
DayOf(wall) == 2 + (wall \div 1440)
HourOf(wall) == (wall % 1440) \div 60
MinuteOf(wall) == wall % 60
\* strftime('%Y-%m-%d %H:%M') of a reading of April 2024
Strftime(wall) ==
    <<"2", "0", "2", "4", "-", "0", "4", "-">> \o TwoDigits(DayOf(wall))
        \o <<" ">> \o TwoDigits(HourOf(wall)) \o <<":">>
        \o TwoDigits(MinuteOf(wall))

\* an event as the provider lists it; NoText and NoTime stand for a key the
\* record does not have (start and end are the dateTime of start and end)
ListedEvent(id, summary, start, end, description) ==
    [id |-> id, summary |-> summary, start |-> start, end |-> end,
     description |-> description]

\* dateutil.parser.parse accepts an ISO text with or without zone suffix
Parses(t) == t.kind = "iso"
OrUnknown(text) == IF text = NoText THEN <<"Unknown">> ELSE text
OrNoDescription(text) == IF text = NoText THEN <<"No description">> ELSE text

\* event_utils.py:9, the template of a complete event
FullFormat(event) ==
    <<"Event ID: ">> \o event.id \o <<"LF", "Event: ">> \o event.summary
        \o <<"LF", "Start: ">> \o Strftime(event.start.wall)
        \o <<"LF", "End: ">> \o Strftime(event.end.wall)
        \o <<"LF", "Description: ">> \o OrNoDescription(event.description)
        \o <<"LF">>
\* event_utils.py:12, what is left when the template could not be filled
DegradedFormat(event) ==
    <<"Event ID: ">> \o OrUnknown(event.id) \o <<"LF", "Event: ">>
        \o OrUnknown(event.summary) \o <<"LF", "Error formatting details", "LF">>

\* format_event_details as it would be without its except clause: the
\* template is filled with whatever the record holds
FormatEventDetailsUnguarded(event) == FullFormat(event)

\* format_event_details, lines 4-12: a missing key or an unparseable
\* timestamp raises inside the try block
FormatEventDetails(event) ==
    IF /\ Parses(event.start) /\ Parses(event.end)
       /\ event.id # NoText /\ event.summary # NoText
    THEN FullFormat(event)
    ELSE DegradedFormat(event)

\* "\n".join(format_event_details(event) for event in events)
RECURSIVE JoinFormatted(_)
JoinFormatted(events) ==
    IF events = <<>> THEN <<>>
    ELSE IF Len(events) = 1 THEN FormatEventDetails(events[1])
    ELSE FormatEventDetails(events[1]) \o <<"LF">>
             \o JoinFormatted(Tail(events))

\* ------------------------------------------------------ tool wrappers ----
\* str[:-1] when the text ends with Z (calendar_agent.py:124-127)
StripZ(t) ==
    IF EndsWithZ(t) THEN [t EXCEPT !.suffix = SubSeq(@, 1, Len(@) - 1)] ELSE t

\* datetime.fromisoformat: a reading with no suffix is naive, one with an
\* offset suffix is aware; any other text raises ValueError
IsIsoformat(t) == t.kind = "iso" /\ t.suffix \in {<<>>, <<"+02:00">>}
UtcOffsetOf(t) == IF t.suffix = <<"+02:00">> THEN 120 ELSE 0
FromIsoformat(t) ==
    [wall |-> t.wall, aware |-> t.suffix # <<>>, utcoffset |-> UtcOffsetOf(t)]

\* datetime.astimezone(pytz.UTC): a naive datetime is taken to be in the
\* host's local time
AsTimezoneUTC(d, host) ==
    d.wall - (IF d.aware THEN d.utcoffset ELSE host)

\* the normalisation as it would be if the Z were appended to the text as it
\* came in
NormaliseAppendZ(t, host) == [t EXCEPT !.suffix = Append(@, "Z")]
\* the normalisation as it would be if the reading were kept as it is
NormaliseKeepReading(t, host) == Iso(t.wall, <<"Z">>)

\* calendar_agent.py:124-139 and 164-177: strip one Z, parse, convert to
\* UTC, format with "%Y-%m-%dT%H:%M:%SZ"
Normalise(t, host) ==
    Iso(AsTimezoneUTC(FromIsoformat(StripZ(t)), host), <<"Z">>)

\* the text of the exception a tool wrapper catches before the client call
ArgumentError(s, e) ==
    IF s.kind = "none" THEN <<"'start_time'">>
    ELSE IF e.kind = "none" THEN <<"'end_time'">>
    ELSE IF ~IsIsoformat(StripZ(s)) \/ ~IsIsoformat(StripZ(e))
         THEN <<"Invalid isoformat string">>
    ELSE <<>>

\* add_event_wrapper, lines 110-156: add_event is a plain function, so the
\* await of line 147 raises after the insert call has been made
AddEventWrapper(event_details, host, insertOk) ==
    LET err == ArgumentError(event_details.start_time, event_details.end_time)
        normalised ==
            [event_details EXCEPT
                !.start_time = Normalise(event_details.start_time, host),
                !.end_time = Normalise(event_details.end_time, host)]
    IN  IF err # <<>>
        THEN [ret |-> <<"Error adding event: ">> \o err, calls |-> <<>>]
        ELSE [ret |-> <<ToolResult("add_event")>>,
              calls |-> AddEvent(normalised, insertOk).calls]

\* get_events_wrapper, lines 158-189: get_events is a plain function, so the
\* await of line 181 raises after the list call has been made
GetEventsWrapper(events, time_min, time_max, host, listOk) ==
    LET err == ArgumentError(time_min, time_max) IN
    IF err # <<>>
    THEN [ret |-> <<"Error getting events: ">> \o err, calls |-> <<>>]
    ELSE [ret |-> <<ToolResult("get_events")>>,
          calls |-> GetEvents(events, Normalise(time_min, host),
                              Normalise(time_max, host), listOk).calls]

\* main.py:388-395, the get_events branch of handle_function_call
HandleFunctionCall(events, time_min, time_max, listOk) ==
    LET r == GetEvents(events, time_min, time_max, listOk) IN
    [ret |-> IF r.ret # <<>> THEN JoinFormatted(r.ret)
             ELSE <<"No events found in the specified time range">>,
     calls |-> r.calls]

NoTool == [fn |-> "none", arg |-> <<>>, ret |-> <<>>, calls |-> <<>>,
           provider_ok |-> TRUE]

Time_tomorrow == NotIso
HostOffsets == {-300, 0, 120}
ToolAddArguments ==
    {Details(t, a, b, d) :
        t \in {Title_TeamMeeting, NoText},
        a \in {Time_1400, Time_1400Z, Time_1400_plus2, Time_tomorrow,
               NoTime},
        b \in {Time_1500, Time_1500Z, NoTime},
        d \in {Desc_sync, NoText}}
ToolRanges ==
    {<<a, b>> : a \in {Time_1400, Time_1400Z, Time_0030, Time_tomorrow},
                b \in {Time_1500, Time_1500Z}}

\* the events a provider may list to the tools
Ev_full ==
    ListedEvent(Id_abc123, Title_TeamMeeting, Time_1400Z, Time_1500Z, Desc_sync)
Ev_plain ==
    ListedEvent(Id_e_2, Title_Standup, Time_1400_plus2, Time_1500, NoText)
Ev_noId ==
    ListedEvent(NoText, Title_Standup, Time_1400Z, Time_1500Z, Desc_sync)
Ev_noSummary ==
    ListedEvent(Id_e_2, NoText, Time_1400Z, Time_1500Z, NoText)
Ev_allDay ==
    ListedEvent(Id_e_2, Title_Standup, NoTime, NoTime, Desc_sync)
Ev_badStart ==
    ListedEvent(NoText, NoText, Time_tomorrow, Time_1500Z, NoText)
ListedEvents == {Ev_full, Ev_plain, Ev_noId, Ev_noSummary, Ev_allDay,
                 Ev_badStart}
ListedEventLists ==
    {<<>>} \cup {<<e>> : e \in ListedEvents}
           \cup {<<Ev_full, e>> : e \in ListedEvents}

\* the LLM calls the add_event tool
CallAddEventWrapper ==
    \E event_details \in ToolAddArguments, insertOk \in BOOLEAN :
      LET r == AddEventWrapper(event_details, host_utc_offset, insertOk) IN
      /\ tool_op' = [fn |-> "add_event", arg |-> event_details,
                     ret |-> r.ret, calls |-> r.calls,
                     provider_ok |-> insertOk]
      /\ UNCHANGED <<convVars, calVars, host_utc_offset, credVars>>

\* the LLM calls the get_events tool
CallGetEventsWrapper ==
    \E range \in ToolRanges, listOk \in BOOLEAN :
      LET r == GetEventsWrapper(provider_events, range[1], range[2],
                                host_utc_offset, listOk) IN
      /\ tool_op' = [fn |-> "get_events", arg |-> range, ret |-> r.ret,
                     calls |-> r.calls, provider_ok |-> listOk]
      /\ UNCHANGED <<convVars, calVars, host_utc_offset, credVars>>

\* main.py's assistant calls get_events through handle_function_call
CallHandleFunctionCall ==
    \E range \in ToolRanges, listOk \in BOOLEAN :
      LET r == HandleFunctionCall(provider_events, range[1], range[2],
                                  listOk) IN
      /\ tool_op' = [fn |-> "handle_function_call", arg |-> range,
                     ret |-> r.ret, calls |-> r.calls,
                     provider_ok |-> listOk]
      /\ UNCHANGED <<convVars, calVars, host_utc_offset, credVars>>

\* one listed event is formatted
CallFormatEventDetails ==
    \E i \in 1..Len(provider_events) :
      /\ tool_op' = [fn |-> "format_event_details", arg |-> provider_events[i],
                     ret |-> FormatEventDetails(provider_events[i]),
                     calls |-> <<>>, provider_ok |-> TRUE]
      /\ UNCHANGED <<convVars, calVars, host_utc_offset, credVars>>


\* --------------------------------------------------- _get_credentials ----
\* tokens the authorisation server may issue during a run
MaxTokens == 3

\* google.oauth2 Credentials: which access token it carries (serial), whether
\* it carries one, whether its expiry has passed, whether it can be refreshed
Creds(serial, has_token, expired, refresh_token) ==
    [serial |-> serial, has_token |-> has_token, expired |-> expired,
     refresh_token |-> refresh_token]
\* Credentials.valid
Valid(creds) == creds.has_token /\ ~creds.expired

\* token.pickle: absent, or holding pickled credentials
NoCreds == Creds(0, FALSE, FALSE, FALSE)
NoFile == [exists |-> FALSE, creds |-> NoCreds]
StoredFile(creds) == [exists |-> TRUE, creds |-> creds]
StoredFiles ==
    {NoFile} \cup {StoredFile(Creds(0, t, x, r)) : t, x, r \in BOOLEAN}

\* creds.refresh(Request()) and flow.run_local_server(port=0), when they
\* succeed: a new access token, and after consent perhaps a refresh token
Refreshed(creds, serial) ==
    [creds EXCEPT !.serial = serial, !.has_token = TRUE, !.expired = FALSE]
Consented(serial, refresh_token) == Creds(serial, TRUE, FALSE, refresh_token)

\* _get_credentials as it would be if an invalid token always led to the
\* consent flow
GetCredentialsNoRefresh(file, serial, stepOk, refresh_token) ==
    IF file.exists /\ Valid(file.creds)
    THEN [ret |-> file.creds, file |-> file, steps |-> <<>>,
          wrote |-> FALSE, raised |-> FALSE]
    ELSE [ret |-> Consented(serial, refresh_token),
          file |-> StoredFile(Consented(serial, refresh_token)),
          steps |-> <<"flow">>, wrote |-> TRUE, raised |-> ~stepOk]

\* _get_credentials, lines 23-45: the credentials returned, the file left
\* behind, the steps taken; an error of the refresh or of the consent flow
\* is not caught, so nothing is written and nothing returned
GetCredentials(file, serial, stepOk, refresh_token) ==
    IF file.exists /\ Valid(file.creds)
    THEN [ret |-> file.creds, file |-> file, steps |-> <<>>,
          wrote |-> FALSE, raised |-> FALSE]
    ELSE LET refresh == /\ file.exists
                        /\ file.creds.expired
                        /\ file.creds.refresh_token
             creds == IF refresh THEN Refreshed(file.creds, serial)
                      ELSE Consented(serial, refresh_token)
         IN  IF stepOk
             THEN [ret |-> creds, file |-> StoredFile(creds),
                   steps |-> IF refresh THEN <<"refresh">> ELSE <<"flow">>,
                   wrote |-> TRUE, raised |-> FALSE]
             ELSE [ret |-> NoCreds, file |-> file,
                   steps |-> IF refresh THEN <<"refresh">> ELSE <<"flow">>,
                   wrote |-> FALSE, raised |-> TRUE]

\* found is what token.pickle held when the run began
NoCredOp == [fn |-> "none", found |-> NoFile, ret |-> NoCreds, steps |-> <<>>,
             wrote |-> FALSE, raised |-> FALSE, issued |-> 0]

\* get_calendar_service runs _get_credentials
CallGetCredentials ==
    \E stepOk \in BOOLEAN, refresh_token \in BOOLEAN :
      LET r == GetCredentials(token_file, cred_op.issued + 1, stepOk,
                              refresh_token)
      IN  /\ cred_op.issued < MaxTokens
          /\ token_file' = r.file
          /\ cred_op' = [fn |-> "_get_credentials", found |-> token_file,
                         ret |-> r.ret,
                         steps |-> r.steps, wrote |-> r.wrote,
                         raised |-> r.raised,
                         issued |-> IF r.wrote THEN cred_op.issued + 1
                                    ELSE cred_op.issued]
          /\ UNCHANGED <<convVars, calVars, toolVars>>

\* time passes between two runs: the expiry of the stored token is reached
TokenExpires ==
    /\ token_file.exists
    /\ ~token_file.creds.expired
    /\ token_file' = [token_file EXCEPT !.creds.expired = TRUE]
    /\ cred_op' = [cred_op EXCEPT !.fn = "none"]
    /\ UNCHANGED <<convVars, calVars, toolVars>>

\* the user removes token.pickle between two runs
TokenFileRemoved ==
    /\ token_file.exists
    /\ token_file' = NoFile
    /\ cred_op' = [cred_op EXCEPT !.fn = "none"]
    /\ UNCHANGED <<convVars, calVars, toolVars>>

\* what every specification starts from outside the part it is about: the
\* calendar agent was constructed, so a valid token is stored
ValidFile == StoredFile(Creds(0, TRUE, FALSE, TRUE))
ToolInit == tool_op = NoTool /\ host_utc_offset = 0
CredInit == token_file = ValidFile /\ cred_op = NoCredOp

ConvInit ==
    /\ chat_history = <<>>
    /\ previous_participant_topic_type = None
    /\ group_chat_topic = <<>>
    /\ request_to_speak = <<>>
    /\ tasks = <<>>
    /\ started = FALSE
    /\ last = Step("init", None, NoMessage, <<>>, "constructed")
    /\ role_chat_history = [r \in HistoryRoles |-> <<>>]

\* the calendar client on its own, called against any provider content
InitCal ==
    /\ participant_topic_types = <<"User", "Planning", "Calendar">>
    /\ ConvInit
    /\ provider_events \in EventLists
    /\ cal_op = NoCall
    /\ ToolInit
    /\ CredInit

NextCal ==
    \/ CallDeleteEvent
    \/ CallFindEventByTitle
    \/ CallAddEvent
    \/ CallGetEvents

SpecCal == InitCal /\ [][NextCal]_vars

\* the tools of the calendar agent, run on any host against any listing
InitTool ==
    /\ participant_topic_types = <<"User", "Planning", "Calendar">>
    /\ ConvInit
    /\ provider_events \in ListedEventLists
    /\ cal_op = NoCall
    /\ tool_op = NoTool
    /\ host_utc_offset \in HostOffsets
    /\ CredInit

NextTool ==
    \/ CallAddEventWrapper
    \/ CallGetEventsWrapper
    \/ CallHandleFunctionCall
    \/ CallFormatEventDetails

SpecTool == InitTool /\ [][NextTool]_vars

\* _get_credentials, run again and again over whatever token.pickle holds
InitCred ==
    /\ participant_topic_types = <<"User", "Planning", "Calendar">>
    /\ ConvInit
    /\ provider_events = <<>>
    /\ cal_op = NoCall
    /\ ToolInit
    /\ token_file \in StoredFiles
    /\ cred_op = NoCredOp

NextCred ==
    \/ CallGetCredentials
    \/ TokenExpires
    \/ TokenFileRemoved

SpecCred == InitCred /\ [][NextCred]_vars

\* ----------------------------------------------------- specification ----
Init ==
    /\ participant_topic_types \in RegistrationOrders
    /\ ConvInit
    /\ provider_events = <<>>
    /\ cal_op = NoCall
    /\ ToolInit
    /\ CredInit

Next ==
    \/ PublishFirstMessage
    \/ HandleMessage
    \/ HandleCompletion
    \/ UserRequestToSpeak
    \/ PlanningRequestToSpeak
    \/ PlanningPublish
    \/ CalendarRequestToSpeak
    \/ CalendarCompletion
    \/ CalendarRunTool
    \/ CalendarToolReturn
    \/ CalendarPublish

Spec == Init /\ [][Next]_vars

\* ------------------------------------------------------------ claims ----
Range(s) == {s[i] : i \in 1..Len(s)}
IndexOf(s, x) == CHOOSE i \in 1..Len(s) : s[i] = x
LastMessage == chat_history[Len(chat_history)]
SelectTasks == {i \in 1..Len(tasks) : tasks[i].kind = "select"}
\* the conversation is over: nothing is published or awaited any more
Idle == tasks = <<>> /\ request_to_speak = <<>> /\ group_chat_topic = <<>>
\* the topic types whose name occurs case-insensitively in a completion
Named(completion) ==
    {t \in Range(participant_topic_types) :
        Contains(Lower(completion), Lower(TopicChars(t)))}
\* the sequence p lists exactly the registered roles other than x, once each
ListsAllBut(p, x) ==
    /\ Range(p) = Range(participant_topic_types) \ {x}
    /\ Len(p) = Cardinality(Range(p))

\* C1 (as stated): whenever the selector prompt is built, its participants
\* list and its role descriptions leave out the author of the most recent
\* message of the history and hold every other registered role.
C1_ExcludesLastAuthor ==
    \A i \in SelectTasks :
      /\ ListsAllBut(tasks[i].prompt.participants, LastMessage.source)
      /\ ListsAllBut([k \in 1..Len(tasks[i].prompt.roles) |->
                         tasks[i].prompt.roles[k][1]], LastMessage.source)

\* C1 (amended): the prompt leaves out exactly the role that was last sent a
\* request to speak; that role is the author of the most recent message for
\* every message but the first, and when the first message is handled no
\* role has been selected, so every registered role is listed.
C1_ExcludesPreviousParticipant ==
    \A i \in SelectTasks :
      /\ ListsAllBut(tasks[i].prompt.participants,
                     previous_participant_topic_type)
      /\ ListsAllBut([k \in 1..Len(tasks[i].prompt.roles) |->
                         tasks[i].prompt.roles[k][1]],
                     previous_participant_topic_type)
      /\ \A k \in 1..Len(tasks[i].prompt.roles) :
            tasks[i].prompt.roles[k][2] =
                Description(tasks[i].prompt.roles[k][1])
      /\ Len(chat_history) >= 2 =>
            previous_participant_topic_type = LastMessage.source
      /\ Len(chat_history) = 1 =>
            /\ previous_participant_topic_type = None
            /\ tasks[i].prompt.participants = participant_topic_types

C1_Witness ==
    /\ SelectTasks # {}
    /\ Len(chat_history) >= 2
    /\ previous_participant_topic_type = "Planning"
    /\ LastMessage.source = "Planning"

\* C2: a request to speak is never dispatched to the role that received the
\* previous one.
C2_NeverSameRoleTwice ==
    [][\A r \in TopicTypes :
          request_to_speak' = Append(request_to_speak, r) =>
              r # previous_participant_topic_type]_vars

\* trimming whitespace, then stripping punctuation, then ends with approve
ReadsAsApproval(content) ==
    EndsWith(Strip(Strip(Lower(content), Whitespace), Punctuation), Txt_approve)

\* C3: a User message whose trimmed, punctuation-stripped, lower-cased
\* content ends with approve is appended to the history and ends the
\* conversation: no selection call is made, no request to speak dispatched.
C3_ApprovalEndsConversation ==
    (/\ last.op = "handle_message"
     /\ last.msg.source = "User"
     /\ ReadsAsApproval(last.msg.content))
    => (LastMessage = last.msg /\ Idle)

\* C4 (as stated): a User message approved (in any letter case) or
\* I approve this plan! ends the conversation.
C4_ApprovedEnds ==
    (/\ last.op = "handle_message"
     /\ last.msg.source = "User"
     /\ last.msg.content \in {Txt_approved, Txt_APPROVED, Txt_plan})
    => Idle

\* C4 (amended): a User message approved (in any letter case) or
\* I approve this plan! does not end the conversation, handle_message goes
\* on to the selector call; the word approve itself, in any letter case and
\* with or without punctuation around it, does end it.
C4_OnlyApproveEnds ==
    last.op = "handle_message" /\ last.msg.source = "User" =>
      /\ last.msg.content \in {Txt_approved, Txt_APPROVED, Txt_plan} =>
            /\ Len(tasks) = 1
            /\ tasks[1].kind = "select"
            /\ tasks[1].prompt.history[Len(chat_history)] =
                   <<"User", last.msg.content>>
      /\ last.msg.content \in {Txt_approve, Txt_APPROVE_bang} => Idle

C4_Witness ==
    /\ last.op = "handle_message"
    /\ last.msg = Message("User", Txt_plan)
    /\ Len(tasks) = 1
    /\ Len(chat_history) >= 2

\* C5: a User message disapprove does not end the conversation: the selector
\* call is made.
C5_DisapproveContinues ==
    (/\ last.op = "handle_message"
     /\ last.msg = Message("User", Txt_disapprove))
    => SelectTasks # {}

\* C6: the request to speak goes to the first role, in registration order,
\* whose name occurs case-insensitively in the completion, and exactly one
\* request is dispatched.
C6_FirstRegisteredMatchWins ==
    [][(last'.op = "select" /\ tasks' # tasks /\ Named(last'.reply) # {}) =>
          \E r \in Named(last'.reply) :
            /\ request_to_speak' = Append(request_to_speak, r)
            /\ \A t \in Named(last'.reply) :
                  IndexOf(participant_topic_types, r)
                      <= IndexOf(participant_topic_types, t)]_vars

C6_Witness ==
    /\ last.op = "select"
    /\ last.reply = Reply_two
    /\ request_to_speak = <<"User">>
    /\ IndexOf(participant_topic_types, "User")
           < IndexOf(participant_topic_types, "Calendar")

\* C7: a completion that names no registered role dispatches nothing, keeps
\* the previous-speaker marker, and no step of the conversation follows.
C7_InvalidSelectionAborts ==
    [][/\ (last'.op = "select" /\ tasks' # tasks /\ Named(last'.reply) = {}) =>
            /\ request_to_speak' = request_to_speak
            /\ group_chat_topic' = group_chat_topic
            /\ previous_participant_topic_type' =
                   previous_participant_topic_type
            /\ last'.outcome = "ValueError"
            /\ Idle'
       /\ last.outcome # "ValueError"]_vars

C7_Witness ==
    /\ last.outcome = "ValueError"
    /\ last.reply = Reply_nobody
    /\ previous_participant_topic_type = "Calendar"
    /\ Len(chat_history) = 2

\* C8: there is a ceiling on the number of messages: the history never
\* holds more than that many, and once it holds that many no selector call
\* or request to speak is made.
MessageCeiling == MaxMessages - 1
C8_MessageCeiling ==
    /\ Len(chat_history) <= MessageCeiling
    /\ Len(chat_history) = MessageCeiling => Idle

\* C9: turns are strictly sequential: at most one message, request to speak
\* or suspended handler exists at a time, hence at most one role executing
\* and at most one LLM or provider call in flight.
Speaking == {i \in 1..Len(tasks) : tasks[i].role # None}
LLMCalls ==
    {i \in 1..Len(tasks) : tasks[i].kind \in {"select", "planning_llm", "calendar_llm"}}
ProviderCalls == {i \in 1..Len(tasks) : tasks[i].kind = "calendar_provider"}
C9_OneTurnAtATime ==
    /\ Len(group_chat_topic) + Len(request_to_speak) + Len(tasks) <= 1
    /\ Cardinality(Speaking) + Len(request_to_speak) <= 1
    /\ Cardinality(LLMCalls) + Cardinality(ProviderCalls) <= 1

C9_Witness ==
    /\ ProviderCalls # {}
    /\ Len(tasks) = 1
    /\ Len(tasks[1].results) = 1
    /\ Len(chat_history) >= 2

\* C10: delete_event with an argument made only of alphanumeric characters
\* and underscores uses it as the event id and makes no title lookup; with
\* any other argument it makes exactly one title lookup, before any
\* provider delete call.
MadeOfAlnumAndUnderscore(arg) ==
    arg # <<>> /\ \A i \in 1..Len(arg) : arg[i] \in Letters \cup Digits \cup {"_"}
TitleLookups(calls) ==
    {i \in 1..Len(calls) : calls[i].api = "find_event_by_title"}
DeleteCalls(calls) == {i \in 1..Len(calls) : calls[i].api = "events.delete"}
C10_IdOrOneLookup ==
    cal_op.fn = "delete_event" =>
      IF MadeOfAlnumAndUnderscore(cal_op.arg)
      THEN /\ TitleLookups(cal_op.calls) = {}
           /\ cal_op.calls = <<Call("events.delete", cal_op.arg)>>
      ELSE /\ Cardinality(TitleLookups(cal_op.calls)) = 1
           /\ \A d \in DeleteCalls(cal_op.calls) :
                 \A l \in TitleLookups(cal_op.calls) : l < d

\* ---- C11 ----
\* C11: delete_event returns false and makes no provider delete call when no
\* event id can be resolved, that is when the argument is looked up as a
\* title and the lookup fails or no listed event has that title; it makes at
\* most one provider delete call, and it returns true only if that call was
\* made, succeeded, and removed the event from the provider's list
Matches(events, title) ==
    {i \in 1..Len(events) : Lower(events[i].summary) = Lower(title)}
NoIdResolved(events, op) ==
    /\ ~MadeOfAlnumAndUnderscore(op.arg)
    /\ \/ "events.list" \in op.failed
       \/ Matches(events, op.arg) = {}
C11_DeleteNeedsResolvedId ==
    [][cal_op'.fn = "delete_event" =>
         /\ Cardinality(DeleteCalls(cal_op'.calls)) <= 1
         /\ NoIdResolved(provider_events, cal_op') =>
               /\ cal_op'.ret = FALSE
               /\ DeleteCalls(cal_op'.calls) = {}
               /\ provider_events' = provider_events
         /\ cal_op'.ret = TRUE =>
               /\ Cardinality(DeleteCalls(cal_op'.calls)) = 1
               /\ "events.delete" \notin cal_op'.failed
               /\ Len(provider_events') = Len(provider_events) - 1]_vars
\* a title no listed event has was looked up, and nothing was deleted
C11_Witness ==
    /\ cal_op.fn = "delete_event"
    /\ cal_op.arg = Title_TeamMeeting
    /\ provider_events # <<>>
    /\ Matches(provider_events, cal_op.arg) = {}
    /\ cal_op.failed = {}
    /\ cal_op.ret = FALSE
    /\ DeleteCalls(cal_op.calls) = {}

\* ---- C12 ----
\* C12: find_event_by_title, when the list call succeeds, returns the id of
\* the earliest listed event whose summary equals the title when case is
\* ignored, whole summary against whole title, and returns nothing when no
\* listed event matches
C12_FirstExactMatch ==
    (cal_op.fn = "find_event_by_title" /\ cal_op.failed = {}) =>
      LET m == Matches(provider_events, cal_op.arg) IN
      IF m = {} THEN cal_op.ret = None
      ELSE \E i \in m : /\ \A j \in m : i <= j
                         /\ cal_op.ret = provider_events[i].id
\* two listed events share the title and the first one is the answer
C12_Witness ==
    /\ cal_op.fn = "find_event_by_title"
    /\ cal_op.failed = {}
    /\ Cardinality(Matches(provider_events, cal_op.arg)) = 2
    /\ provider_events[1].summary # cal_op.arg
    /\ cal_op.ret = provider_events[1].id
\* a title that is only a part of a summary finds nothing
C12_WitnessSubstring ==
    /\ cal_op.fn = "find_event_by_title"
    /\ cal_op.failed = {}
    /\ cal_op.arg = Title_Team
    /\ \E i \in 1..Len(provider_events) :
          provider_events[i].summary = Title_TeamMeeting
    /\ cal_op.ret = None

\* ---- C13 ----
\* C13: every calendar-client operation returns to its caller when a
\* provider call fails: get_events returns the empty sequence, add_event
\* and delete_event return false, find_event_by_title returns nothing, and
\* the failed call is made once only
CallsOf(calls, api) == {i \in 1..Len(calls) : calls[i].api = api}
C13_ProviderErrorsAbsorbed ==
    cal_op.failed # {} =>
      /\ \A api \in cal_op.failed : Cardinality(CallsOf(cal_op.calls, api)) = 1
      /\ cal_op.fn = "get_events" => cal_op.ret = <<>>
      /\ cal_op.fn = "add_event" => cal_op.ret = FALSE
      /\ cal_op.fn = "delete_event" => cal_op.ret = FALSE
      /\ cal_op.fn = "find_event_by_title" => cal_op.ret = None
\* the list call of get_events failed although the provider holds events
C13_Witness ==
    /\ cal_op.fn = "get_events"
    /\ cal_op.failed = {"events.list"}
    /\ provider_events # <<>>
    /\ cal_op.ret = <<>>

\* ---- C14 ----
\* C14: the list-events tool, when the provider call succeeds for a valid
\* range, returns one formatted text per listed event, in the provider's
\* order, joined by line feeds, and the text No events found when the
\* provider lists nothing
IsoRange(range) == range[1].kind = "iso" /\ range[2].kind = "iso"
C14_ListEventsResult ==
    (/\ tool_op.fn \in {"get_events", "handle_function_call"}
     /\ tool_op.provider_ok
     /\ IsoRange(tool_op.arg)) =>
      tool_op.ret = IF provider_events = <<>> THEN <<"No events found">>
                    ELSE JoinFormatted(provider_events)

\* ---- C15 ----
\* C15: the add_event tool, given ISO start and end times with or without a
\* trailing Z, makes one provider insert call whose start and end end in
\* exactly one Z, are marked with the time zone UTC, and read as the UTC time
\* of the input (the input taken in its own offset when it carries one, in
\* the host's local time otherwise)
InsertCalls(calls) == CallsOf(calls, "events.insert")
IsoTimes(details) ==
    details.start_time.kind = "iso" /\ details.end_time.kind = "iso"
OneZ(t) == t.kind = "iso" /\ t.suffix = <<"Z">>
ReadingInUTC(t, host) ==
    t.wall - (IF \E i \in 1..Len(t.suffix) : t.suffix[i] = "+02:00"
              THEN 120 ELSE host)
C15_InsertTimesInUTC ==
    (tool_op.fn = "add_event" /\ IsoTimes(tool_op.arg)) =>
      /\ Cardinality(InsertCalls(tool_op.calls)) = 1
      /\ \A i \in InsertCalls(tool_op.calls) :
           LET body == tool_op.calls[i].arg IN
           /\ OneZ(body.start.dateTime) /\ OneZ(body.end.dateTime)
           /\ body.start.timeZone = "UTC" /\ body.end.timeZone = "UTC"
           /\ body.start.dateTime.wall =
                ReadingInUTC(tool_op.arg.start_time, host_utc_offset)
           /\ body.end.dateTime.wall =
                ReadingInUTC(tool_op.arg.end_time, host_utc_offset)
\* the example of the tool description, with a Z on the start time, run on a
\* host two hours ahead of UTC
C15_Witness ==
    /\ tool_op.fn = "add_event"
    /\ tool_op.arg.start_time = Time_1400Z
    /\ tool_op.arg.end_time = Time_1500
    /\ host_utc_offset = 120
    /\ InsertCalls(tool_op.calls) # {}
    /\ tool_op.calls[1].arg.start.dateTime = Iso(720, <<"Z">>)

\* ---- C16 ----
\* C16 as stated: for a naive ISO timestamp, with or without a trailing Z,
\* the value the add-event and list-events tools send to the provider has
\* the reading of the input whatever the host's offset
Naive(t) == t.kind = "iso" /\ t.suffix \in {<<>>, <<"Z">>}
SentTimes(op) ==
    IF op.calls = <<>> THEN <<>>
    ELSE IF op.fn = "add_event"
         THEN <<op.calls[1].arg.start.dateTime, op.calls[1].arg.end.dateTime>>
         ELSE op.calls[1].arg
GivenTimes(op) ==
    IF op.fn = "add_event" THEN <<op.arg.start_time, op.arg.end_time>>
    ELSE op.arg
C16_NoZoneConversion ==
    (tool_op.fn \in {"add_event", "get_events"} /\ tool_op.calls # <<>>) =>
      \A k \in 1..2 :
        Naive(GivenTimes(tool_op)[k]) =>
          SentTimes(tool_op)[k].wall = GivenTimes(tool_op)[k].wall
\* C16: the normalisation of the add-event and list-events tools converts
\* from the host's local zone: for a naive ISO timestamp, with or without a
\* trailing Z, the value sent to the provider is the reading of the input
\* less the host's UTC offset, followed by one Z; it has the reading of the
\* input only on a host whose offset is zero; a trailing Z on the input makes
\* no difference
C16_ConvertsFromHostZone ==
    /\ (tool_op.fn \in {"add_event", "get_events"} /\ tool_op.calls # <<>>) =>
         \A k \in 1..2 :
           Naive(GivenTimes(tool_op)[k]) =>
             /\ SentTimes(tool_op)[k].wall =
                  GivenTimes(tool_op)[k].wall - host_utc_offset
             /\ SentTimes(tool_op)[k].suffix = <<"Z">>
             /\ (SentTimes(tool_op)[k].wall = GivenTimes(tool_op)[k].wall)
                  <=> host_utc_offset = 0
    /\ Normalise(Time_1400Z, host_utc_offset)
         = Normalise(Time_1400, host_utc_offset)
    /\ Normalise(Time_1500Z, host_utc_offset)
         = Normalise(Time_1500, host_utc_offset)
\* the list-events tool on a host five hours behind UTC: 14:00 is sent as
\* 19:00
C16_Witness ==
    /\ tool_op.fn = "get_events"
    /\ host_utc_offset = -300
    /\ tool_op.arg[1] = Time_1400
    /\ tool_op.calls # <<>>
    /\ tool_op.calls[1].arg[1] = Iso(1140, <<"Z">>)

\* ---- C17 ----
\* C17: the add_event tool makes no provider insert call and reports no
\* success when the details lack the title, the start time or the end time;
\* with all three and no description the insert call is made
Success == <<"Event successfully added to calendar">>
Lacking(details) ==
    \/ details.title = NoText
    \/ details.start_time.kind = "none"
    \/ details.end_time.kind = "none"
C17_RequiresTitleStartEnd ==
    tool_op.fn = "add_event" =>
      /\ Lacking(tool_op.arg) =>
           InsertCalls(tool_op.calls) = {} /\ tool_op.ret # Success
      /\ (~Lacking(tool_op.arg) /\ IsoTimes(tool_op.arg)
            /\ tool_op.arg.description = NoText) =>
           InsertCalls(tool_op.calls) # {}

\* ---- C18 ----
\* C18: format_event_details returns a text for every event record: the
\* full template, with the id, the summary, both times and the description
\* or No description, exactly when the record has an id, a summary and
\* parseable start and end; otherwise the two lines of id and summary, each
\* Unknown when absent, followed by the error marker
Has(text, token) == \E i \in 1..Len(text) : text[i] = token
After(text, token) ==
    LET i == CHOOSE i \in 1..Len(text) : text[i] = token
    IN  SubSeq(text, i + 1, Len(text))
StartsWith(text, prefix) ==
    Len(text) >= Len(prefix) /\ SubSeq(text, 1, Len(prefix)) = prefix
Complete(event) ==
    /\ event.id # NoText /\ event.summary # NoText
    /\ event.start.kind = "iso" /\ event.end.kind = "iso"
C18_FormatIsTotal ==
    tool_op.fn = "format_event_details" =>
      LET event == tool_op.arg
          text == tool_op.ret
      IN  /\ text # <<>> /\ text[1] = "Event ID: " /\ Has(text, "Event: ")
          /\ Complete(event) <=> ~Has(text, "Error formatting details")
          /\ Complete(event) =>
               /\ StartsWith(After(text, "Event ID: "), event.id)
               /\ StartsWith(After(text, "Event: "), event.summary)
               /\ Has(text, "Start: ") /\ Has(text, "End: ")
               /\ StartsWith(After(text, "Start: "),
                             Strftime(event.start.wall))
               /\ StartsWith(After(text, "Description: "),
                             IF event.description = NoText
                             THEN <<"No description">>
                             ELSE event.description)
          /\ ~Complete(event) =>
               /\ StartsWith(After(text, "Event ID: "),
                             IF event.id = NoText THEN <<"Unknown">>
                             ELSE event.id)
               /\ StartsWith(After(text, "Event: "),
                             IF event.summary = NoText THEN <<"Unknown">>
                             ELSE event.summary)
               /\ ~Has(text, "Start: ") /\ ~Has(text, "Description: ")
\* an all-day event, which has no dateTime, is formatted in the degraded way
C18_Witness ==
    /\ tool_op.fn = "format_event_details"
    /\ tool_op.arg.start.kind = "none"
    /\ tool_op.arg.id # NoText
    /\ Has(tool_op.ret, "Error formatting details")
\* an event without id and summary is formatted with Unknown twice
C18_WitnessUnknown ==
    /\ tool_op.fn = "format_event_details"
    /\ tool_op.arg.id = NoText /\ tool_op.arg.summary = NoText
    /\ tool_op.ret = <<"Event ID: ", "Unknown", "LF", "Event: ", "Unknown",
                       "LF", "Error formatting details", "LF">>

\* ---- C20 ----
\* C20: a run of _get_credentials that returns rewrites token.pickle exactly
\* when it refreshed the token or ran the consent flow: a stored valid token
\* is returned and the file left as it was; a stored token that is expired
\* and has a refresh token is refreshed; with no file, or an invalid token
\* that cannot be refreshed, the consent flow runs; the credentials returned
\* are the ones the file holds afterwards
FoundValid(op) ==
    op.found.exists /\ op.found.creds.has_token /\ ~op.found.creds.expired
FoundRefreshable(op) ==
    /\ op.found.exists /\ ~FoundValid(op)
    /\ op.found.creds.expired /\ op.found.creds.refresh_token
C20_TokenFileFrame ==
    cred_op.fn = "_get_credentials" =>
      /\ FoundValid(cred_op) =>
           /\ cred_op.steps = <<>> /\ ~cred_op.raised
           /\ cred_op.ret = cred_op.found.creds
      /\ FoundRefreshable(cred_op) => cred_op.steps = <<"refresh">>
      /\ (~FoundValid(cred_op) /\ ~FoundRefreshable(cred_op)) =>
           cred_op.steps = <<"flow">>
      /\ cred_op.wrote <=> (cred_op.steps # <<>> /\ ~cred_op.raised)
      /\ IF cred_op.wrote
         THEN token_file.exists /\ token_file # cred_op.found
         ELSE token_file = cred_op.found
      /\ ~cred_op.raised =>
           token_file.exists /\ cred_op.ret = token_file.creds
\* an expired token with a refresh token was refreshed and stored
C20_Witness ==
    /\ cred_op.fn = "_get_credentials"
    /\ FoundRefreshable(cred_op)
    /\ cred_op.steps = <<"refresh">>
    /\ cred_op.wrote
    /\ token_file.creds.serial > cred_op.found.creds.serial
    /\ ~token_file.creds.expired

\* ---- C21 ----
\* C21: the previous-speaker marker is unset at the start and always either
\* unset or a registered role; it changes only in a step that dispatches a
\* request to speak, and after a successful selection it is the role the
\* request to speak was just sent to
C21_MarkerIsLastSelected ==
    /\ previous_participant_topic_type = None
    /\ [][/\ previous_participant_topic_type'
               \in {None} \cup Range(participant_topic_types')
          /\ previous_participant_topic_type' # previous_participant_topic_type
               => request_to_speak' = Append(request_to_speak,
                                             previous_participant_topic_type')
          /\ (last'.op = "select" /\ last'.outcome = "selected")
               => /\ previous_participant_topic_type' = last'.role
                  /\ request_to_speak' = Append(request_to_speak, last'.role)
         ]_vars
\* the second selection moved the marker from one role to another
C21_Witness ==
    /\ last.op = "select" /\ last.outcome = "selected"
    /\ Len(chat_history) = 2
    /\ chat_history[2].source = "Planning"
    /\ previous_participant_topic_type = "Calendar"
    /\ request_to_speak = <<"Calendar">>

\* ---- C22 ----
\* C22: the history of the orchestrator is append-only: a step that handles a
\* message, an approving User message included, appends that message at the
\* end, once; every other step, a failed selection included, leaves the
\* history as it is; so the history holds the handled messages in the order
\* they were handled
C22_HistoryAppendOnly ==
    [][IF Len(group_chat_topic') < Len(group_chat_topic)
       THEN \E i \in 1..Len(group_chat_topic) :
              /\ group_chat_topic' = RemoveAt(group_chat_topic, i)
              /\ chat_history' = Append(chat_history, group_chat_topic[i])
              /\ last'.op = "handle_message"
       ELSE /\ chat_history' = chat_history
            /\ last'.op # "handle_message"]_vars
\* an approving User message is the second entry of the history
C22_Witness ==
    /\ last.op = "handle_message" /\ last.outcome = "stopped"
    /\ Len(chat_history) = 2
    /\ chat_history[2] = Message("User", Txt_APPROVE_bang)
    /\ chat_history[1].source = "User"
\* the selection failed after the second message and the history holds both
C22_WitnessFailedSelection ==
    /\ last.outcome = "ValueError"
    /\ Len(chat_history) = 2
    /\ chat_history[2].source = "Calendar"

\* ---- C23 ----
\* C23: once a User message that reads as an approval (trimmed, stripped of
\* punctuation, lower-cased, ending with approve) has been handled, the
\* conversation is idle and stays so: no request to speak is dispatched, no
\* reply is published and the history does not grow
ApprovalHandled ==
    \E i \in 1..Len(chat_history) :
      /\ chat_history[i].source = "User"
      /\ ReadsAsApproval(chat_history[i].content)
C23_IdleAfterApproval ==
    /\ [](ApprovalHandled => Idle)
    /\ [][ApprovalHandled =>
            UNCHANGED <<chat_history, request_to_speak, group_chat_topic>>]_vars

\* ---- C24 ----
\* C24: every request to speak is answered by one reply published to the
\* group chat with the role as source: the handler of a Planning or Calendar
\* request ends by publishing the LLM text or the results of all tool calls,
\* also when a tool is unknown; the handler of a User request publishes the
\* console input
RoleTasks(ts, r) == {i \in 1..Len(ts) : ts[i].role = r}
RequestsTo(rs, r) == {i \in 1..Len(rs) : rs[i] = r}
PublishedBy(r) ==
    /\ last'.op = "speak" /\ last'.role = r /\ last'.msg.source = r
    /\ group_chat_topic' = Append(group_chat_topic, last'.msg)
C24_EveryRequestAnswered ==
    [][/\ \A r \in {"Planning", "Calendar"} :
            Cardinality(RoleTasks(tasks', r)) < Cardinality(RoleTasks(tasks, r))
              => PublishedBy(r)
       /\ Cardinality(RequestsTo(request_to_speak', "User"))
            < Cardinality(RequestsTo(request_to_speak, "User"))
              => PublishedBy("User") /\ last'.msg.content \in UserInputs
       /\ \A i \in 1..Len(tasks) :
            (tasks[i].kind = "calendar_tools" /\ PublishedBy("Calendar"))
              => tasks[i].calls = <<>> /\ last'.msg.content = tasks[i].results
      ]_vars

\* ---- C25 ----
\* C25: when the Planning or the Calendar role calls the LLM, the role's own
\* history, its transfer markers left out, holds the messages of the
\* orchestrator's history, the role's own earlier replies included, in the
\* same order
IsConversation(entry) == entry.source # "system"
Conversation(r) == SelectSeq(role_chat_history[r], IsConversation)
SameMessages(entries, messages) ==
    /\ Len(entries) = Len(messages)
    /\ \A i \in 1..Len(entries) :
          /\ entries[i].source = messages[i].source
          /\ entries[i].content = messages[i].content
CallsLLM(r) ==
    \E i \in 1..Len(tasks) :
      tasks[i].role = r /\ tasks[i].kind \in {"planning_llm", "calendar_llm"}
C25_RoleSeesFullConversation ==
    \A r \in HistoryRoles :
      CallsLLM(r) => SameMessages(Conversation(r), chat_history)

====
